---- MODULE Spec2Model ----
(***************************************************************************)
(* Model of the D-1 sales simulator (src/src/d1_sales_simulator.py) and of *)
(* the log-based verifier (src/src/verify_simulation.py).                  *)
(*                                                                         *)
(* One simulation run (start_simulation) is followed by at most one        *)
(* verification run (verify_simulation_results).  The database is a        *)
(* function InvoiceId -> Total; `committed' is what other sessions see and *)
(* `txn' is the state inside the run's open transaction.  Monetary totals  *)
(* are integers in units of 0.0001 currency units.                         *)
(***************************************************************************)
EXTENDS Naturals, Integers, Sequences, FiniteSets, TLC

VARIABLES
    pc,                 \* position of start_simulation
    step,               \* index into RunSteps while pc = "try"
    phase,              \* index into BatchOrder while the batch runs
    i,                  \* loop counter of the running _perform_* loop
    num_inserts, num_updates, num_deletes,
    db_objects,         \* functions and sequences present in the database
    committed,          \* committed rows: InvoiceId -> Total
    txn,                \* rows as seen inside the run's transaction
    next_id,            \* next value of invoice_id_seq
    all_operations,     \* the operation records collected by the batch
    logs,               \* simulation_logs/: file name -> content
    exit_status,        \* -1 while running, else the process exit status
    validation_error,   \* [raised, named] of validate_database_state
    \* history of the current run (not read by the program)
    calls,              \* stored-function calls made, in order
    commits,            \* successful conn.commit() calls
    simulation_start_time,  \* the instant the run started, in seconds
    log_writes,         \* invocations of write_log_file
    fault,              \* first failure injected by the environment
    validated,          \* validate_database_state returned normally
    committed_before,   \* committed rows when the run started
    logs_before,        \* log directory when the run started
    drift,              \* external changes made after the run
    \* verifier
    vpc,                \* position of verify_simulation_results
    v_log,              \* parsed content of the latest log
    success_count, fail_count,
    v_exit,             \* -1 while running, else the verifier's exit status
    v_queries,          \* queries the verifier has issued
    v_mismatches,       \* the records the verifier has reported as failed
    v_seen,             \* the logs and the rows as the verifier found them
    v_reports,          \* the summaries of the verifier's runs so far
    v_runs,             \* runs of the verifier started so far
    \* wall clock and dates
    now,                \* the wall clock, in seconds
    clock_moves,        \* the times the clock has been seen to move
    runs,               \* simulation runs started so far
    ops_budget,         \* the operations the operator may still ask for
    d1_date,            \* start_simulation's d1_date
    simulation_date_for_mods,   \* process_operations_batch's start of D-1
    ins_window,         \* _perform_inserts' (start_date, end_date)
    written,            \* the file names opened for writing, with the run
    last_commit_run     \* the run whose conn.commit() returned last

vars == <<pc, step, phase, i, num_inserts, num_updates, num_deletes, db_objects,
          committed, txn, next_id, all_operations, logs, exit_status,
          validation_error, calls, commits, simulation_start_time, log_writes, fault,
          validated, committed_before, logs_before, drift,
          vpc, v_log, success_count, fail_count, v_exit, v_queries,
          v_mismatches, v_seen, v_reports, v_runs,
          now, clock_moves, runs, ops_budget, d1_date, simulation_date_for_mods, ins_window,
          written, last_commit_run>>

verVars == <<vpc, v_log, success_count, fail_count, v_exit, v_queries,
             v_mismatches, v_seen, v_reports, v_runs>>

----------------------------------------------------------------------------
\* Bounds of the model

MaxOps == 3         \* the batches request at most MaxOps operations in all
InitRows == 2       \* invoices present before the run
MaxDrift == 1       \* external changes between the run and the verification
MaxVerifications == 2   \* runs of the verifier
MaxRuns == 2        \* runs of the simulator, where there are several
MaxRunsOps == 1     \* operations requested in all, where programs are run again
MaxClockMoves == 1  \* the times the clock is seen to move

----------------------------------------------------------------------------
\* Values

NULL == 0           \* SQL NULL / Python None for an InvoiceId (ids are >= 1)
NoTotal == -1       \* a record without a "total" key
RUNNING == -1       \* the process has not exited

EXIT_OK == 0
EXIT_FAILURE == 1
EXIT_INTERRUPT == 130

\* Decimal('0.001') in units of 0.0001
TOLERANCE == 10

\* The totals simulate_new_sale gives a sale (0.99 or 1.98) and
\* simulate_update_sale gives an updated one (2.97)
NewSaleTotals == {9900, 19800}
UpdatedTotals == {29700}

\* External modifications of a stored total: by the tolerance exactly and by
\* the next representable amount beyond it, in both directions
Deltas == {0 - (TOLERANCE + 1), 0 - TOLERANCE, TOLERANCE, TOLERANCE + 1}

SECONDS_PER_DAY == 86400

\* datetime.time.max is 23:59:59.999999
TIME_MAX_SECOND == 86399
TIME_MAX_MICROSECOND == 999999
MICROSECONDS_PER_SECOND == 1000000

RequiredFunctions == {"simulate_new_sale", "simulate_update_sale", "simulate_delete_sale"}
RequiredSequences == {"invoice_id_seq", "invoice_line_id_seq"}
RequiredObjects == RequiredFunctions \cup RequiredSequences

Abs(x) == IF x < 0 THEN 0 - x ELSE x

\* db without row id
RemoveRow(db, id) == [k \in (DOMAIN db) \ {id} |-> db[k]]

\* db with row id set to total t
PutRow(db, id, t) == [k \in (DOMAIN db) \cup {id} |-> IF k = id THEN t ELSE db[k]]

----------------------------------------------------------------------------
\* Conversions of a monetary total

\* float(total) of a NUMERIC read from the database.  A binary double holds
\* every decimal of at most 15 significant digits so that repr() gives the
\* same digits back; every total of the model is in that range, so the double
\* is named by the decimal it prints as.
float_of(total) == total

\* Decimal(str(op['total'])) of a float read from the log
Decimal_of_str(f) == f

----------------------------------------------------------------------------
\* Dates and times.  A date is a day number; a datetime is [day, sec, us]:
\* the day, the second of the day and the microsecond of the second; a
\* timedelta is [sec, us].

\* datetime.date.today() on a clock of `clock' seconds
date_today(clock) == clock \div SECONDS_PER_DAY

\* datetime.datetime.combine(date, time) for the time [sec, us]
combine(date, sec, us) == [day |-> date, sec |-> sec, us |-> us]

\* get_d1_date_range, on a day that is `today'
get_d1_date_range_today(today) ==
    [start |-> combine(today, 0, 0),
     end |-> combine(today, TIME_MAX_SECOND, TIME_MAX_MICROSECOND)]

get_d1_date_range(today) ==
    LET yesterday == today - 1
    IN  [start |-> combine(yesterday, 0, 0),
         end |-> combine(yesterday, TIME_MAX_SECOND, TIME_MAX_MICROSECOND)]

\* end - start of two datetimes, end not before start
timedelta_between(end, start) ==
    LET secs == (end.day - start.day) * SECONDS_PER_DAY + end.sec - start.sec
    IN  IF end.us >= start.us
        THEN [sec |-> secs, us |-> end.us - start.us]
        ELSE [sec |-> secs - 1, us |-> MICROSECONDS_PER_SECOND + end.us - start.us]

\* int(delta.total_seconds()) of a timedelta that is not negative
int_total_seconds(delta) == delta.sec

\* dt + datetime.timedelta(seconds=r)
plus_seconds(dt, r) ==
    [day |-> dt.day + (dt.sec + r) \div SECONDS_PER_DAY,
     sec |-> (dt.sec + r) % SECONDS_PER_DAY,
     us |-> dt.us]

\* the calendar day of a datetime
date_of(dt) == dt.day

\* random.randint(0, d): the two ends of the range stand for every draw
randint(d) == {0, d}

\* a datetime not yet resolved
NoDate == combine(0, 0, 0)

----------------------------------------------------------------------------
\* validate_database_state: the outcome for the objects found in the catalog.
\* `named' are the object names that appear in the error message.

validate_functions_only(objs) ==
    LET found_functions == objs \cap RequiredFunctions
    IN  IF ~(RequiredFunctions \subseteq found_functions)
        THEN [raised |-> TRUE, named |-> RequiredFunctions \ found_functions]
        ELSE [raised |-> FALSE, named |-> {}]

validate_database_state(objs) ==
    LET found_functions == objs \cap RequiredFunctions
        sequences == objs \cap RequiredSequences
    IN  IF ~(RequiredFunctions \subseteq found_functions)
        THEN [raised |-> TRUE, named |-> RequiredFunctions \ found_functions]
        ELSE IF "invoice_id_seq" \notin sequences \/ "invoice_line_id_seq" \notin sequences
        THEN [raised |-> TRUE, named |-> {}]
        ELSE [raised |-> FALSE, named |-> {}]

----------------------------------------------------------------------------
\* The stored functions, as the contracts of the database boundary state them:
\* each returns the set of outcomes [ret, total, db] it may produce on db.

\* simulate_delete_sale(date) -> invoice_id | none: removes the returned row
simulate_delete_sale(db) ==
    {[ret |-> NULL, total |-> NoTotal, db |-> db]}
    \cup {[ret |-> id, total |-> NoTotal, db |-> RemoveRow(db, id)] : id \in DOMAIN db}

\* simulate_update_sale(date) -> invoice_id | none: the returned row stays,
\* its total may change
simulate_update_sale(db) ==
    {[ret |-> NULL, total |-> NoTotal, db |-> db]}
    \cup {[ret |-> id, total |-> NoTotal, db |-> PutRow(db, id, t)] :
             id \in DOMAIN db, t \in UpdatedTotals}

\* simulate_new_sale(timestamp) -> (invoice_id, total) | none: a row with the
\* next value of invoice_id_seq
simulate_new_sale(db, id) ==
    {[ret |-> NULL, total |-> NoTotal, db |-> db]}
    \cup {[ret |-> id, total |-> t, db |-> PutRow(db, id, t)] : t \in NewSaleTotals}

----------------------------------------------------------------------------
\* The batch: what one iteration of each loop does with the fetched result.
\* Each gives [ops, raised]: the operation list after the iteration and
\* whether the iteration raised.

perform_delete_raising(ops, deleted_id) ==
    IF deleted_id # NULL
    THEN [ops |-> Append(ops, [type |-> "delete", invoice_id |-> deleted_id,
                               total |-> NoTotal]),
          raised |-> FALSE]
    ELSE [ops |-> ops, raised |-> TRUE]

perform_delete(ops, deleted_id) ==
    IF deleted_id # NULL
    THEN [ops |-> Append(ops, [type |-> "delete", invoice_id |-> deleted_id,
                               total |-> NoTotal]),
          raised |-> FALSE]
    ELSE [ops |-> ops, raised |-> FALSE]

perform_update(ops, updated_id) ==
    IF updated_id # NULL
    THEN [ops |-> Append(ops, [type |-> "update", invoice_id |-> updated_id,
                               total |-> NoTotal]),
          raised |-> FALSE]
    ELSE [ops |-> ops, raised |-> FALSE]

\* result is the fetched row [ret, total], ret = NULL when fetchone() is None
perform_insert(ops, result) ==
    IF result.ret # NULL
    THEN [ops |-> Append(ops, [type |-> "insert", invoice_id |-> result.ret,
                               total |-> float_of(result.total)]),
          raised |-> FALSE]
    ELSE [ops |-> ops, raised |-> FALSE]

\* process_operations_batch: the order of the three loops
BatchOrderUpdatesFirst == <<"update", "delete", "insert">>

BatchOrderInsertsFirst == <<"insert", "delete", "update">>

BatchOrder == <<"delete", "update", "insert">>

\* the requested count of the loop of kind k
Requested(k, ni, nu, nd) ==
    IF k = "delete" THEN nd ELSE IF k = "update" THEN nu ELSE ni

\* start_simulation: the statements of the try block
RunStepsLogFirst == <<"batch", "log", "commit">>

RunSteps == <<"batch", "commit", "log">>

\* the except handler of the try block (conn.rollback(); sys.exit(1)): the
\* committed rows it leaves, given the committed rows c and the transaction's
\* rows t
except_handler_commits(c, t) == t

except_handler(c, t) == c

\* leaving `with psycopg.connect(...) as conn': the committed rows left, given
\* the committed rows c and the transaction's rows t; an exception rolls back
connection_exit_commits(exception, c, t) == t

connection_exit(exception, c, t) == IF exception THEN c ELSE t

\* the handlers of the outer try of start_simulation: the exit status
outer_handler_generic(exception) == EXIT_FAILURE

outer_handler(exception) ==
    IF exception = "KeyboardInterrupt" THEN EXIT_INTERRUPT ELSE EXIT_FAILURE

----------------------------------------------------------------------------
\* write_log_file

CountType(ops, ty) == Cardinality({k \in 1..Len(ops) : ops[k].type = ty})

\* the name of the log of a run started at start_time: strftime gives it to
\* the second and drops what tells two instants of one second apart
log_filename(start_time) == start_time.sec

\* the document toml.dump writes
log_data(ops, d1) ==
    [d1_date |-> d1,
     counts |-> [inserts |-> CountType(ops, "insert"),
                 updates |-> CountType(ops, "update"),
                 deletes |-> CountType(ops, "delete")],
     operations |-> ops]

\* a file open() created and toml.dump did not fill parses to an empty document
EmptyLog == [d1_date |-> NoDate,
             counts |-> [inserts |-> 0, updates |-> 0, deletes |-> 0],
             operations |-> <<>>]

\* the modification time of a file written on a clock of `clock' seconds as
\* the k-th write to the directory: later writes of one second are later
st_mtime(clock, k) == [sec |-> clock, n |-> k]

\* modification time a is not later than b
not_later(a, b) == a.sec < b.sec \/ (a.sec = b.sec /\ a.n <= b.n)

\* the directory with file name holding document doc, modified at instant t
PutFile(dir, name, doc, t) ==
    [n \in (DOMAIN dir) \cup {name} |->
        IF n = name THEN [doc |-> doc, mtime |-> t] ELSE dir[n]]

----------------------------------------------------------------------------
\* The verifier

\* find_latest_log_file: the file of greatest modification time, NULL if none
find_latest_log_file(dir) ==
    IF DOMAIN dir = {} THEN NULL
    ELSE CHOOSE n \in DOMAIN dir :
            \A m \in DOMAIN dir : not_later(dir[m].mtime, dir[n].mtime)

SelectType(ops, ty) == SelectSeq(ops, LAMBDA op : op.type = ty)

\* the check of one insert record against the rows db: TRUE counts a success
verify_insert_strict(db, op) ==
    IF op.invoice_id \notin DOMAIN db THEN FALSE
    ELSE IF Abs(db[op.invoice_id] - Decimal_of_str(op.total)) >= TOLERANCE THEN FALSE
    ELSE TRUE

verify_insert(db, op) ==
    IF op.invoice_id \notin DOMAIN db THEN FALSE
    ELSE IF Abs(db[op.invoice_id] - Decimal_of_str(op.total)) > TOLERANCE THEN FALSE
    ELSE TRUE

\* the check of one delete record: the row must be gone
verify_delete_row_present(db, op) == IF op.invoice_id \in DOMAIN db THEN TRUE ELSE FALSE

verify_delete(db, op) == IF op.invoice_id \in DOMAIN db THEN FALSE ELSE TRUE

\* the check of one update record: the row must still be there
verify_update(db, op) == IF op.invoice_id \notin DOMAIN db THEN FALSE ELSE TRUE

verify_one(kind, db, op) ==
    IF kind = "insert" THEN verify_insert(db, op)
    ELSE IF kind = "delete" THEN verify_delete(db, op)
    ELSE verify_update(db, op)

\* success_count = 0, fail_count = 0: the counters a run of the verifier
\* starts with, whatever the run before it left
carried_counters(left) == left

initial_counters(left) == [success |-> 0, fail |-> 0]

\* the records a loop reports as failed, in the order of the log
mismatches(kind, db, ops) ==
    SelectSeq(ops, LAMBDA op : ~verify_one(kind, db, op))

\* a loop that returns at its first failed check
RECURSIVE verify_loop_until_failure(_, _, _, _)
verify_loop_until_failure(kind, db, ops, acc) ==
    IF ops = <<>> THEN acc
    ELSE IF verify_one(kind, db, Head(ops))
    THEN verify_loop_until_failure(kind, db, Tail(ops),
            [success |-> acc.success + 1, fail |-> acc.fail])
    ELSE [success |-> acc.success, fail |-> acc.fail + 1]

\* one verification loop over ops, adding to the counters acc
RECURSIVE verify_loop(_, _, _, _)
verify_loop(kind, db, ops, acc) ==
    IF ops = <<>> THEN acc
    ELSE verify_loop(kind, db, Tail(ops),
            IF verify_one(kind, db, Head(ops))
            THEN [success |-> acc.success + 1, fail |-> acc.fail]
            ELSE [success |-> acc.success, fail |-> acc.fail + 1])


----------------------------------------------------------------------------
\* Initial state: a database with InitRows invoices and any subset of the
\* required objects, an empty log directory, no process running.

InitState(budget) ==
    /\ pc = "idle"
    /\ step = 1
    /\ phase = 0
    /\ i = 0
    /\ num_inserts = 0
    /\ num_updates = 0
    /\ num_deletes = 0
    /\ db_objects \in SUBSET RequiredObjects
    /\ committed = [id \in 1..InitRows |-> 9900]
    /\ txn = committed
    /\ next_id = InitRows + 1
    /\ all_operations = <<>>
    /\ logs = <<>>
    /\ exit_status = RUNNING
    /\ validation_error = [raised |-> FALSE, named |-> {}]
    /\ calls = <<>>
    /\ commits = 0
    /\ simulation_start_time = [sec |-> 0, n |-> 0]
    /\ log_writes = 0
    /\ fault = "none"
    /\ validated = FALSE
    /\ committed_before = committed
    /\ logs_before = logs
    /\ drift = 0
    /\ vpc = "idle"
    /\ v_log = EmptyLog
    /\ success_count = 0
    /\ fail_count = 0
    /\ v_exit = RUNNING
    /\ v_queries = 0
    /\ v_mismatches = <<>>
    /\ v_seen = [logs |-> <<>>, db |-> <<>>]
    /\ v_reports = <<>>
    /\ v_runs = 0
    /\ now = SECONDS_PER_DAY
    /\ clock_moves = 0
    /\ runs = 0
    /\ ops_budget = budget
    /\ d1_date = NoDate
    /\ simulation_date_for_mods = NoDate
    /\ ins_window = [start |-> NoDate, end |-> NoDate]
    /\ written = <<>>
    /\ last_commit_run = 0

Init == InitState(MaxOps)

\* the same, where the program is run several times
InitRuns == InitState(MaxRunsOps)

Fault(f) == IF fault = "none" THEN f ELSE fault

\* the process ends with status st and the committed rows `rows'; leaving the
\* connection block on an exception rolls the open transaction back
ExitWith(st, rows) ==
    /\ pc' = "done"
    /\ exit_status' = st
    /\ committed' = rows
    /\ txn' = rows

----------------------------------------------------------------------------
\* start_simulation

\* main.py simulate: three non-negative counts, then start_simulation is entered
StartSimulation ==
    /\ pc = "idle"
    /\ vpc = "idle"
    /\ \E ni \in 0..MaxOps, nu \in 0..MaxOps, nd \in 0..MaxOps :
        /\ ni + nu + nd <= ops_budget
        /\ ops_budget' = ops_budget - (ni + nu + nd)
        /\ num_inserts' = ni
        /\ num_updates' = nu
        /\ num_deletes' = nd
    /\ runs' = runs + 1
    /\ simulation_start_time' = [sec |-> now, n |-> runs']
    /\ d1_date' = get_d1_date_range(date_today(now)).start
    /\ pc' = "connect"
    /\ UNCHANGED <<simulation_date_for_mods, ins_window>>
    /\ UNCHANGED <<now, clock_moves>>
    /\ UNCHANGED <<written, last_commit_run>>
    /\ UNCHANGED <<step, phase, i, db_objects, committed, txn, next_id,
                   all_operations, logs, exit_status, validation_error, calls,
                   commits, log_writes, fault, validated, committed_before,
                   logs_before, drift>>
    /\ UNCHANGED verVars

\* psycopg.connect(conn_string)
Connect ==
    /\ pc = "connect"
    /\ \/ /\ pc' = "validate"
          /\ UNCHANGED <<exit_status, committed, txn, fault>>
       \/ /\ fault' = Fault("connect_error")
          /\ ExitWith(outer_handler("psycopg.Error"), committed)
    /\ UNCHANGED <<step, phase, i, num_inserts, num_updates, num_deletes,
                   db_objects, next_id, all_operations, logs,
                   validation_error, calls, commits, simulation_start_time,
                   log_writes, validated, committed_before, logs_before, drift>>
    /\ UNCHANGED verVars
    /\ UNCHANGED <<runs, d1_date, simulation_date_for_mods, ins_window>>
    /\ UNCHANGED <<now, clock_moves, ops_budget>>
    /\ UNCHANGED <<written, last_commit_run>>

\* validate_database_state(conn); a RuntimeError reaches the outer handler
Validate ==
    /\ pc = "validate"
    /\ LET r == validate_database_state(db_objects)
       IN  /\ validation_error' = r
           /\ IF r.raised
              THEN /\ ExitWith(outer_handler("RuntimeError"),
                               connection_exit(TRUE, committed, txn))
                   /\ UNCHANGED validated
              ELSE /\ validated' = TRUE
                   /\ pc' = "try"
                   /\ UNCHANGED <<exit_status, committed, txn>>
    /\ UNCHANGED <<step, phase, i, num_inserts, num_updates, num_deletes,
                   db_objects, next_id, all_operations, logs,
                   calls, commits, simulation_start_time, log_writes, fault,
                   committed_before, logs_before, drift>>
    /\ UNCHANGED verVars
    /\ UNCHANGED <<runs, d1_date, simulation_date_for_mods, ins_window>>
    /\ UNCHANGED <<now, clock_moves, ops_budget>>
    /\ UNCHANGED <<written, last_commit_run>>

InBatch(kind) ==
    /\ pc = "try"
    /\ step <= Len(RunSteps)
    /\ RunSteps[step] = "batch"
    /\ phase \in 1..Len(BatchOrder)
    /\ BatchOrder[phase] = kind
    /\ i < Requested(kind, num_inserts, num_updates, num_deletes)

\* what an iteration leaves: the next iteration, or the except handler
AfterIteration(raised) ==
    IF raised
    THEN /\ pc' = "handler"
         /\ UNCHANGED i
    ELSE /\ i' = i + 1
         /\ UNCHANGED pc

BatchFrame ==
    /\ UNCHANGED <<step, phase, num_inserts, num_updates, num_deletes,
                   db_objects, committed, logs, exit_status, validation_error,
                   commits, simulation_start_time, log_writes,
                   validated, committed_before, logs_before, drift>>
    /\ UNCHANGED verVars
    /\ UNCHANGED <<runs, d1_date>>
    /\ UNCHANGED <<now, clock_moves, ops_budget>>
    /\ UNCHANGED <<written, last_commit_run>>

\* process_operations_batch is entered: the date of the deletes and updates
BatchEnter ==
    /\ pc = "try"
    /\ step <= Len(RunSteps)
    /\ RunSteps[step] = "batch"
    /\ phase = 0
    /\ phase' = 1
    /\ simulation_date_for_mods' = get_d1_date_range(date_today(now)).start
    /\ UNCHANGED <<pc, step, i, num_inserts, num_updates, num_deletes,
                   db_objects, committed, txn, next_id, all_operations, logs,
                   exit_status, validation_error, calls, commits,
                   simulation_start_time, log_writes, fault, validated,
                   committed_before, logs_before, drift, runs, d1_date,
                   ins_window>>
    /\ UNCHANGED <<now, clock_moves, ops_budget>>
    /\ UNCHANGED <<written, last_commit_run>>
    /\ UNCHANGED verVars

\* the window of _perform_inserts: resolved before its first iteration
inserts_window(k, window, clock) ==
    IF k = 0 THEN get_d1_date_range(date_today(clock)) ELSE window

\* one iteration of _perform_deletes
PerformDelete ==
    /\ InBatch("delete")
    /\ \E o \in simulate_delete_sale(txn) :
        LET r == perform_delete(all_operations, o.ret)
        IN  /\ txn' = o.db
            /\ calls' = Append(calls, [fn |-> "delete", ret |-> o.ret, raised |-> FALSE,
                                       arg_date |-> date_of(simulation_date_for_mods)])
            /\ all_operations' = r.ops
            /\ AfterIteration(r.raised)
    /\ UNCHANGED <<next_id, fault, simulation_date_for_mods, ins_window>>
    /\ BatchFrame

\* one iteration of _perform_updates
PerformUpdate ==
    /\ InBatch("update")
    /\ \E o \in simulate_update_sale(txn) :
        LET r == perform_update(all_operations, o.ret)
        IN  /\ txn' = o.db
            /\ calls' = Append(calls, [fn |-> "update", ret |-> o.ret, raised |-> FALSE,
                                       arg_date |-> date_of(simulation_date_for_mods)])
            /\ all_operations' = r.ops
            /\ AfterIteration(r.raised)
    /\ UNCHANGED <<next_id, fault, simulation_date_for_mods, ins_window>>
    /\ BatchFrame

\* one iteration of _perform_inserts
PerformInsert ==
    /\ InBatch("insert")
    /\ LET w == inserts_window(i, ins_window, now)
           time_diff_seconds == int_total_seconds(timedelta_between(w.end, w.start))
       IN  /\ ins_window' = w
           /\ \E o \in simulate_new_sale(txn, next_id), r_s \in randint(time_diff_seconds) :
                LET r == perform_insert(all_operations, o)
                    timestamp == plus_seconds(w.start, r_s)
                IN  /\ txn' = o.db
                    /\ next_id' = IF o.ret = NULL THEN next_id ELSE next_id + 1
                    /\ calls' = Append(calls, [fn |-> "insert", ret |-> o.ret,
                                               raised |-> FALSE,
                                               arg_date |-> date_of(timestamp)])
                    /\ all_operations' = r.ops
                    /\ AfterIteration(r.raised)
    /\ UNCHANGED <<fault, simulation_date_for_mods>>
    /\ BatchFrame

\* cur.execute of a stored function raises psycopg.Error
StoredFunctionRaises ==
    /\ \E kind \in {"delete", "update", "insert"} :
        /\ InBatch(kind)
        /\ LET w == IF kind = "insert"
                    THEN inserts_window(i, ins_window, now)
                    ELSE ins_window
           IN  /\ ins_window' = w
               /\ calls' = Append(calls, [fn |-> kind, ret |-> NULL, raised |-> TRUE,
                                          arg_date |-> IF kind = "insert"
                                                       THEN date_of(w.start)
                                                       ELSE date_of(simulation_date_for_mods)])
    /\ UNCHANGED simulation_date_for_mods
    /\ fault' = Fault("db_error")
    /\ pc' = "handler"
    /\ UNCHANGED <<i, txn, next_id, all_operations>>
    /\ BatchFrame

\* a loop of the batch ends; after the last one process_operations_batch returns
LoopDone ==
    /\ pc = "try"
    /\ step <= Len(RunSteps)
    /\ RunSteps[step] = "batch"
    /\ phase \in 1..Len(BatchOrder)
    /\ i = Requested(BatchOrder[phase], num_inserts, num_updates, num_deletes)
    /\ i' = 0
    /\ IF phase = Len(BatchOrder)
       THEN /\ phase' = 0
            /\ step' = step + 1
       ELSE /\ phase' = phase + 1
            /\ UNCHANGED step
    /\ UNCHANGED <<pc, num_inserts, num_updates, num_deletes, db_objects,
                   committed, txn, next_id, all_operations, logs, exit_status,
                   validation_error, calls, commits, simulation_start_time,
                   log_writes, fault, validated, committed_before, logs_before,
                   drift>>
    /\ UNCHANGED verVars
    /\ UNCHANGED <<runs, d1_date, simulation_date_for_mods, ins_window>>
    /\ UNCHANGED <<now, clock_moves, ops_budget>>
    /\ UNCHANGED <<written, last_commit_run>>

\* conn.commit()
Commit ==
    /\ pc = "try"
    /\ step <= Len(RunSteps)
    /\ RunSteps[step] = "commit"
    /\ \/ /\ committed' = txn
          /\ commits' = commits + 1
          /\ last_commit_run' = runs
          /\ step' = step + 1
          /\ UNCHANGED <<pc, fault>>
       \/ /\ fault' = Fault("commit_error")
          /\ pc' = "handler"
          /\ UNCHANGED <<committed, commits, step, last_commit_run>>
    /\ UNCHANGED <<phase, i, num_inserts, num_updates, num_deletes, db_objects,
                   txn, next_id, all_operations, logs, exit_status,
                   validation_error, calls, simulation_start_time, log_writes,
                   validated, committed_before, logs_before, drift>>
    /\ UNCHANGED verVars
    /\ UNCHANGED <<runs, d1_date, simulation_date_for_mods, ins_window>>
    /\ UNCHANGED <<now, clock_moves, ops_budget>>
    /\ UNCHANGED written

\* write_log_file(simulation_start_time, operations, d1_date)
WriteLog ==
    /\ pc = "try"
    /\ step <= Len(RunSteps)
    /\ RunSteps[step] = "log"
    /\ log_writes' = log_writes + 1
    /\ \/ \* the file is written
          /\ logs' = PutFile(logs, log_filename(simulation_start_time),
                             log_data(all_operations, d1_date),
                             st_mtime(now, Len(written) + 1))
          /\ written' = Append(written, [run |-> runs,
                                         name |-> log_filename(simulation_start_time)])
          /\ step' = step + 1
          /\ UNCHANGED <<pc, fault>>
       \/ \* os.makedirs raises: outside the function's try, so the handler runs
          /\ fault' = Fault("makedirs_error")
          /\ pc' = "handler"
          /\ UNCHANGED <<logs, step, written>>
       \/ \* open() raises: caught and logged inside write_log_file
          /\ fault' = Fault("write_error")
          /\ step' = step + 1
          /\ UNCHANGED <<pc, logs, written>>
       \/ \* toml.dump raises after open() created the file: caught and logged
          /\ fault' = Fault("write_error")
          /\ logs' = PutFile(logs, log_filename(simulation_start_time),
                             EmptyLog, st_mtime(now, Len(written) + 1))
          /\ written' = Append(written, [run |-> runs,
                                         name |-> log_filename(simulation_start_time)])
          /\ step' = step + 1
          /\ UNCHANGED pc
    /\ UNCHANGED <<phase, i, num_inserts, num_updates, num_deletes, db_objects,
                   committed, txn, next_id, all_operations, exit_status,
                   validation_error, calls, commits, simulation_start_time,
                   validated, committed_before, logs_before, drift>>
    /\ UNCHANGED last_commit_run
    /\ UNCHANGED verVars
    /\ UNCHANGED <<runs, d1_date, simulation_date_for_mods, ins_window>>
    /\ UNCHANGED <<now, clock_moves, ops_budget>>

\* the summary is logged, the blocks are left and start_simulation returns;
\* leaving the connection block normally commits what is open
FinishRun ==
    /\ pc = "try"
    /\ step = Len(RunSteps) + 1
    /\ ExitWith(EXIT_OK, connection_exit(FALSE, committed, txn))
    /\ UNCHANGED <<step, phase, i, num_inserts, num_updates, num_deletes,
                   db_objects, next_id, all_operations, logs, validation_error,
                   calls, commits, simulation_start_time, log_writes, fault,
                   validated, committed_before, logs_before, drift>>
    /\ UNCHANGED verVars
    /\ UNCHANGED <<runs, d1_date, simulation_date_for_mods, ins_window>>
    /\ UNCHANGED <<now, clock_moves, ops_budget>>
    /\ UNCHANGED <<written, last_commit_run>>

\* except (Exception, psycopg.Error): conn.rollback(); sys.exit(1)
Handler ==
    /\ pc = "handler"
    /\ ExitWith(EXIT_FAILURE, except_handler(committed, txn))
    /\ UNCHANGED <<step, phase, i, num_inserts, num_updates, num_deletes,
                   db_objects, next_id, all_operations, logs, validation_error,
                   calls, commits, simulation_start_time, log_writes, fault,
                   validated, committed_before, logs_before, drift>>
    /\ UNCHANGED verVars
    /\ UNCHANGED <<runs, d1_date, simulation_date_for_mods, ins_window>>
    /\ UNCHANGED <<now, clock_moves, ops_budget>>
    /\ UNCHANGED <<written, last_commit_run>>

\* KeyboardInterrupt inside the outer try: not an Exception, so only the outer
\* handler takes it
Interrupt ==
    /\ pc \in {"connect", "validate", "try"}
    /\ pc = "try" => step <= Len(RunSteps)
    /\ fault' = Fault("interrupt")
    /\ ExitWith(outer_handler("KeyboardInterrupt"),
                connection_exit(TRUE, committed, txn))
    /\ UNCHANGED <<step, phase, i, num_inserts, num_updates, num_deletes,
                   db_objects, next_id, all_operations, logs,
                   validation_error, calls, commits, simulation_start_time,
                   log_writes, validated, committed_before, logs_before, drift>>
    /\ UNCHANGED verVars
    /\ UNCHANGED <<runs, d1_date, simulation_date_for_mods, ins_window>>
    /\ UNCHANGED <<now, clock_moves, ops_budget>>
    /\ UNCHANGED <<written, last_commit_run>>

----------------------------------------------------------------------------
\* Another session changes the database after the run: a row that a log names
\* is removed, or its total is changed, or it is stored again

LoggedIds(dir) ==
    UNION {{dir[n].doc.operations[k].invoice_id : k \in 1..Len(dir[n].doc.operations)} :
             n \in DOMAIN dir}

ExternalChange ==
    /\ pc = "done"
    /\ vpc = "idle"
    /\ drift < MaxDrift
    /\ drift' = drift + 1
    /\ \/ \E id \in DOMAIN committed \cap LoggedIds(logs) :
            \/ committed' = RemoveRow(committed, id)
            \/ \E d \in Deltas : committed' = PutRow(committed, id, committed[id] + d)
       \/ \E id \in (LoggedIds(logs) \ DOMAIN committed) \ {NULL}, t \in NewSaleTotals :
            committed' = PutRow(committed, id, t)
    /\ txn' = committed'
    /\ UNCHANGED <<pc, step, phase, i, num_inserts, num_updates, num_deletes,
                   db_objects, next_id, all_operations, logs, exit_status,
                   validation_error, calls, commits, simulation_start_time,
                   log_writes, fault, validated, committed_before, logs_before>>
    /\ UNCHANGED verVars
    /\ UNCHANGED <<runs, d1_date, simulation_date_for_mods, ins_window>>
    /\ UNCHANGED <<now, clock_moves, ops_budget>>
    /\ UNCHANGED <<written, last_commit_run>>

----------------------------------------------------------------------------
\* verify_simulation_results

VerFrame ==
    UNCHANGED <<pc, step, phase, i, num_inserts, num_updates, num_deletes,
                db_objects, committed, txn, next_id, all_operations, logs,
                exit_status, validation_error, calls, commits,
                simulation_start_time, log_writes, fault, validated,
                committed_before, logs_before, drift, now, clock_moves, runs,
                ops_budget,
                d1_date, simulation_date_for_mods, ins_window, written,
                last_commit_run>>

\* find_latest_log_file, toml.load, get_connection_string and psycopg.connect:
\* without a log the function returns, a connection error ends with exit(1)
VerifyStart ==
    /\ vpc = "idle"
    /\ pc \in {"idle", "done"}
    /\ v_runs' = v_runs + 1
    /\ v_seen' = [logs |-> logs, db |-> committed]
    /\ LET latest == find_latest_log_file(logs)
           counters == initial_counters([success |-> success_count,
                                         fail |-> fail_count])
       IN  /\ success_count' = counters.success
           /\ fail_count' = counters.fail
           /\ IF latest = NULL
              THEN /\ vpc' = "done"
                   /\ v_exit' = EXIT_OK
                   /\ UNCHANGED v_log
              ELSE /\ v_log' = logs[latest].doc
                   /\ \/ /\ vpc' = "insert"
                         /\ UNCHANGED v_exit
                      \/ /\ vpc' = "done"
                         /\ v_exit' = EXIT_FAILURE
    /\ v_queries' = 0
    /\ v_mismatches' = <<>>
    /\ UNCHANGED v_reports
    /\ VerFrame

\* the three loops, each run to its end
VerifyLoop(kind, next) ==
    /\ vpc = kind
    /\ LET ops == SelectType(v_log.operations, kind)
           acc == verify_loop(kind, committed, ops,
                              [success |-> success_count, fail |-> fail_count])
       IN  /\ success_count' = acc.success
           /\ fail_count' = acc.fail
           /\ v_queries' = v_queries + Len(ops)
           /\ v_mismatches' = v_mismatches \o mismatches(kind, committed, ops)
    /\ vpc' = next
    /\ UNCHANGED <<v_log, v_exit, v_seen, v_reports, v_runs>>
    /\ VerFrame

VerifyInserts == VerifyLoop("insert", "delete")

VerifyDeletes == VerifyLoop("delete", "update")

VerifyUpdates == VerifyLoop("update", "summary")

\* the summary is logged and the function returns
VerifySummary ==
    /\ vpc = "summary"
    /\ vpc' = "done"
    /\ v_exit' = EXIT_OK
    /\ v_reports' = Append(v_reports, [seen |-> v_seen,
                                       success |-> success_count,
                                       fail |-> fail_count,
                                       mismatches |-> v_mismatches])
    /\ UNCHANGED <<v_log, success_count, fail_count, v_queries, v_mismatches,
                   v_seen, v_runs>>
    /\ VerFrame

\* the verifier is started again: a new process
VerifyAgain ==
    /\ vpc = "done"
    /\ v_runs < MaxVerifications
    /\ vpc' = "idle"
    /\ v_exit' = RUNNING
    /\ UNCHANGED <<v_log, success_count, fail_count, v_queries, v_mismatches,
                   v_seen, v_reports, v_runs>>
    /\ VerFrame

----------------------------------------------------------------------------
\* Several runs, on a clock that moves

\* the operator starts the program again: a new process
NewRun ==
    /\ pc = "done"
    /\ vpc = "idle"
    /\ runs < MaxRuns
    /\ pc' = "idle"
    /\ step' = 1
    /\ phase' = 0
    /\ i' = 0
    /\ num_inserts' = 0
    /\ num_updates' = 0
    /\ num_deletes' = 0
    /\ all_operations' = <<>>
    /\ exit_status' = RUNNING
    /\ validation_error' = [raised |-> FALSE, named |-> {}]
    /\ calls' = <<>>
    /\ commits' = 0
    /\ log_writes' = 0
    /\ fault' = "none"
    /\ validated' = FALSE
    /\ committed_before' = committed
    /\ logs_before' = logs
    /\ d1_date' = NoDate
    /\ simulation_date_for_mods' = NoDate
    /\ ins_window' = [start |-> NoDate, end |-> NoDate]
    /\ UNCHANGED <<db_objects, committed, txn, next_id, logs,
                   simulation_start_time, drift, runs, written,
                   last_commit_run>>
    /\ UNCHANGED <<now, clock_moves, ops_budget>>
    /\ UNCHANGED verVars

\* the simulator is about to read the clock: it starts, it enters the batch,
\* it enters the inserts or it writes the log
ReadsClockNext ==
    \/ pc = "idle"
    \/ /\ pc = "try"
       /\ step <= Len(RunSteps)
       /\ \/ RunSteps[step] = "log"
          \/ RunSteps[step] = "batch" /\ phase = 0
          \/ InBatch("insert") /\ i = 0

\* time passes; the time that passes between two readings of the clock is
\* taken just before the second one
ClockFrame ==
    /\ ReadsClockNext
    /\ clock_moves < MaxClockMoves
    /\ clock_moves' = clock_moves + 1
    /\ UNCHANGED <<pc, step, phase, i, num_inserts, num_updates, num_deletes,
                   db_objects, committed, txn, next_id, all_operations, logs,
                   exit_status, validation_error, calls, commits,
                   simulation_start_time, log_writes, fault, validated,
                   committed_before, logs_before, drift, runs, ops_budget,
                   d1_date, simulation_date_for_mods, ins_window, written,
                   last_commit_run>>
    /\ UNCHANGED verVars

\* a second passes
Tick ==
    /\ now' = now + 1
    /\ ClockFrame

\* the rest of the day passes: the clock reaches the next midnight
Midnight ==
    /\ now' = (date_today(now) + 1) * SECONDS_PER_DAY
    /\ ClockFrame

----------------------------------------------------------------------------

Next ==
    \/ StartSimulation
    \/ Connect
    \/ Validate
    \/ BatchEnter
    \/ PerformDelete
    \/ PerformUpdate
    \/ PerformInsert
    \/ StoredFunctionRaises
    \/ LoopDone
    \/ Commit
    \/ WriteLog
    \/ FinishRun
    \/ Handler
    \/ Interrupt
    \/ ExternalChange
    \/ VerifyStart
    \/ VerifyInserts
    \/ VerifyDeletes
    \/ VerifyUpdates
    \/ VerifySummary

Spec == Init /\ [][Next]_vars

\* one run of the simulator, verified again and again
NextTwice ==
    \/ Next
    \/ VerifyAgain

SpecTwice == InitRuns /\ [][NextTwice]_vars

\* the simulator run again and again while the clock moves
NextRuns ==
    \/ StartSimulation
    \/ Connect
    \/ Validate
    \/ BatchEnter
    \/ PerformDelete
    \/ PerformUpdate
    \/ PerformInsert
    \/ StoredFunctionRaises
    \/ LoopDone
    \/ Commit
    \/ WriteLog
    \/ FinishRun
    \/ Handler
    \/ Interrupt
    \/ NewRun
    \/ Tick
    \/ Midnight

SpecRuns == InitRuns /\ [][NextRuns]_vars

\* the simulator run again and again while the clock moves, and then the
\* verifier
NextLatest ==
    \/ NextRuns
    \/ VerifyStart
    \/ VerifyInserts
    \/ VerifyDeletes
    \/ VerifyUpdates
    \/ VerifySummary

SpecLatest == InitRuns /\ [][NextLatest]_vars

----------------------------------------------------------------------------
\* Properties

Requested_total == num_inserts + num_updates + num_deletes

Rank(fn) == IF fn = "delete" THEN 1 ELSE IF fn = "update" THEN 2 ELSE 3

SomeCallRaised == \E k \in 1..Len(calls) : calls[k].raised

\* the log file of the current run
RunLog == log_filename(simulation_start_time)

\* C1: in one run every call of simulate_delete_sale comes before every call
\* of simulate_update_sale, and every call of simulate_update_sale before
\* every call of simulate_new_sale; no delete or update call returns a row
\* that an insert call of the same run created.
C1_DeletesUpdatesInserts ==
    /\ \A p, q \in 1..Len(calls) :
          p < q => Rank(calls[p].fn) <= Rank(calls[q].fn)
    /\ \A q \in 1..Len(calls) :
          (calls[q].fn \in {"delete", "update"} /\ calls[q].ret # NULL)
          => ~ \E p \in 1..(q - 1) :
                  calls[p].fn = "insert" /\ calls[p].ret = calls[q].ret

\* a batch that deleted a row, updated a row and inserted a row
C1_Witness ==
    /\ Len(calls) = 3
    /\ calls[1].fn = "delete" /\ calls[1].ret # NULL
    /\ calls[2].fn = "update" /\ calls[2].ret # NULL
    /\ calls[3].fn = "insert" /\ calls[3].ret # NULL

\* C2: once a stored-function call has raised, the run never commits and the
\* committed rows stay those of before the run, and the run ends with the
\* failure status; a run commits at most once, and only when every requested
\* operation has been executed without raising.
C2_AtomicBatch ==
    /\ commits <= 1
    /\ commits = 1 => (Len(calls) = Requested_total /\ ~SomeCallRaised)
    /\ SomeCallRaised => (commits = 0 /\ committed = committed_before)
    /\ (SomeCallRaised /\ pc = "done")
          => (txn = committed_before /\ exit_status = EXIT_FAILURE)

\* a run that deleted a row, then had a call raise, and has ended
C2_Witness ==
    /\ pc = "done"
    /\ Len(calls) = 2
    /\ calls[1].fn = "delete" /\ calls[1].ret # NULL
    /\ calls[2].raised
    /\ committed = committed_before

\* C3: write_log_file is invoked only after conn.commit() of the run has
\* returned; a run in which a stored function or the commit raised has not
\* invoked it and leaves the log directory as it was.
C3_LogOnlyAfterCommit ==
    /\ log_writes > 0 => commits = 1
    /\ fault \in {"db_error", "commit_error"}
          => (log_writes = 0 /\ logs = logs_before)

\* a run whose commit raised after the batch made calls, and has ended
C3_Witness ==
    /\ pc = "done"
    /\ fault = "commit_error"
    /\ Len(calls) = Requested_total
    /\ Requested_total > 0
    /\ logs = logs_before

\* C4: every run whose transaction commits (and that no interrupt ends)
\* invokes write_log_file exactly once and ends with its log file, holding
\* the run's operations, in the log directory.
C4_CommittedRunHasLog ==
    (pc = "done" /\ commits = 1 /\ fault # "interrupt")
    => /\ log_writes = 1
       /\ RunLog \in DOMAIN logs
       /\ logs[RunLog].doc = log_data(all_operations, d1_date)

\* C5: the log of a committed batch holds num_inserts + num_updates +
\* num_deletes records, one per delete call and one per update call, also
\* when the stored function found no row (stated for the runs in which every
\* insert call returned a row).
C5_LogHoldsEveryRequestedOperation ==
    (/\ pc = "done"
     /\ commits = 1
     /\ RunLog \in DOMAIN logs
     /\ fault = "none"
     /\ \A k \in 1..Len(calls) : calls[k].fn = "insert" => calls[k].ret # NULL)
    => /\ Len(logs[RunLog].doc.operations) = Requested_total
       /\ CountType(logs[RunLog].doc.operations, "delete") = num_deletes
       /\ CountType(logs[RunLog].doc.operations, "update") = num_updates

\* C6: a delete or update call that finds no row, or an insert call that
\* returns nothing, never takes the run to the except handler; a run in which
\* nothing failed executes every requested call in order, commits, writes its
\* log and ends with the success status.
C6_NoOpNeverAborts ==
    /\ (fault = "none" /\ validated) => pc # "handler"
    /\ (pc = "done" /\ fault = "none" /\ validated)
          => /\ Len(calls) = Requested_total
             /\ \A p, q \in 1..Len(calls) :
                   p < q => Rank(calls[p].fn) <= Rank(calls[q].fn)
             /\ commits = 1
             /\ log_writes = 1
             /\ RunLog \in DOMAIN logs
             /\ exit_status = EXIT_OK

\* a run whose delete, update and insert calls all came back empty, ended
C6_Witness ==
    /\ pc = "done"
    /\ fault = "none"
    /\ Len(calls) = 3
    /\ calls[1].fn = "delete" /\ calls[2].fn = "update" /\ calls[3].fn = "insert"
    /\ \A k \in 1..3 : calls[k].ret = NULL /\ ~calls[k].raised
    /\ exit_status = EXIT_OK

\* C7: the operation list holds one Insert record for every insert call that
\* returned, also when simulate_new_sale returned no row.
C7_InsertRecordPerCall ==
    CountType(all_operations, "insert")
        = Cardinality({k \in 1..Len(calls) : calls[k].fn = "insert" /\ ~calls[k].raised})

\* C8: a stored function is called only after validate_database_state has
\* returned normally in the run; with a required function or sequence
\* missing the run makes no stored-function call, does not commit, writes no
\* log, and ends with the failure status unless it was interrupted.
C8_ValidateBeforeCalls ==
    /\ calls # <<>> => validated
    /\ db_objects # RequiredObjects
          => /\ calls = <<>>
             /\ commits = 0
             /\ committed = committed_before
             /\ log_writes = 0
             /\ logs = logs_before
             /\ exit_status \in {RUNNING, EXIT_FAILURE, EXIT_INTERRUPT}

\* a run ended by the validation with only a sequence missing
C8_Witness ==
    /\ pc = "done"
    /\ validation_error.raised
    /\ db_objects = RequiredObjects \ {"invoice_line_id_seq"}
    /\ exit_status = EXIT_FAILURE

\* C9: the error of validate_database_state names every missing object.
C9_ErrorNamesEveryMissingObject ==
    validation_error.raised
    => validation_error.named = RequiredObjects \ db_objects

\* C10: after the insert loop, success_count is the number of Insert records
\* whose row exists with a stored total within 0.001 of the logged total, and
\* fail_count the number of the other Insert records.
C10_InsertVerdicts ==
    vpc = "delete"
    => LET ins == SelectType(v_log.operations, "insert")
           good == {k \in 1..Len(ins) :
                      /\ ins[k].invoice_id \in DOMAIN committed
                      /\ committed[ins[k].invoice_id] - ins[k].total <= TOLERANCE
                      /\ ins[k].total - committed[ins[k].invoice_id] <= TOLERANCE}
       IN  /\ success_count = Cardinality(good)
           /\ fail_count = Len(ins) - Cardinality(good)

\* the insert loop has passed a record whose stored total is off by exactly
\* the tolerance, next to an unchanged one
C10_Witness ==
    /\ vpc = "delete"
    /\ success_count = 2
    /\ \E k \in 1..Len(v_log.operations) :
          /\ v_log.operations[k].type = "insert"
          /\ v_log.operations[k].invoice_id \in DOMAIN committed
          /\ Abs(committed[v_log.operations[k].invoice_id]
                 - v_log.operations[k].total) = TOLERANCE

\* the records of one type in the log under verification
LoggedOf(ty) == SelectType(v_log.operations, ty)

\* Insert records of the log whose row is stored with a total within 0.001
InsertsWithinTolerance ==
    Cardinality({k \in 1..Len(LoggedOf("insert")) :
        LET op == LoggedOf("insert")[k]
        IN  /\ op.invoice_id \in DOMAIN committed
            /\ committed[op.invoice_id] - op.total <= TOLERANCE
            /\ op.total - committed[op.invoice_id] <= TOLERANCE})

\* Delete records of the log whose row does not exist
DeletesAbsent ==
    Cardinality({k \in 1..Len(LoggedOf("delete")) :
        LoggedOf("delete")[k].invoice_id \notin DOMAIN committed})

\* Update records of the log whose row exists
UpdatesPresent ==
    Cardinality({k \in 1..Len(LoggedOf("update")) :
        LoggedOf("update")[k].invoice_id \in DOMAIN committed})

\* C11: the delete loop counts a success for each Delete record whose row is
\* absent and a failure for each whose row exists; the update loop counts a
\* success for each Update record whose row exists and a failure for each whose
\* row is absent.
C11_DeleteUpdateVerdicts ==
    /\ vpc = "update"
       => /\ success_count = InsertsWithinTolerance + DeletesAbsent
          /\ fail_count = (Len(LoggedOf("insert")) - InsertsWithinTolerance)
                          + (Len(LoggedOf("delete")) - DeletesAbsent)
    /\ vpc = "summary"
       => /\ success_count = InsertsWithinTolerance + DeletesAbsent + UpdatesPresent
          /\ fail_count = (Len(LoggedOf("insert")) - InsertsWithinTolerance)
                          + (Len(LoggedOf("delete")) - DeletesAbsent)
                          + (Len(LoggedOf("update")) - UpdatesPresent)

\* both loops are over, with a Delete record whose row is gone (a success) and
\* an Update record whose row another session removed (a failure)
C11_Witness ==
    /\ vpc = "summary"
    /\ DeletesAbsent >= 1
    /\ Len(LoggedOf("update")) - UpdatesPresent >= 1
    /\ success_count >= 1
    /\ fail_count >= 1

\* a Delete record whose row was stored again has been counted a failure
C11_WitnessDeleteFails ==
    /\ vpc = "update"
    /\ Len(LoggedOf("delete")) - DeletesAbsent >= 1
    /\ fail_count >= 1

\* C12: a verifier that found at least one failed check ends with a non-zero
\* status.
C12_FailuresExitNonZero ==
    (vpc = "done" /\ fail_count > 0) => v_exit # EXIT_OK

\* C13: without any simulation log the verifier ends with a non-zero status
\* and issues no query.
C13_NoLogExitsNonZero ==
    (vpc = "done" /\ find_latest_log_file(logs) = NULL)
    => (v_exit # EXIT_OK /\ v_queries = 0)

\* C14: at the summary every operation of the log has been checked once:
\* success_count + fail_count is the number of operations in the log, and so
\* is the number of queries issued.
C14_EveryOperationChecked ==
    vpc = "summary"
    => /\ success_count + fail_count = Len(v_log.operations)
       /\ v_queries = Len(v_log.operations)

\* the summary is reached after a failed check that was followed by a passed
\* check of the same loop
C14_Witness ==
    /\ vpc = "summary"
    /\ fail_count >= 1
    /\ success_count >= 1
    /\ \E ty \in {"insert", "delete", "update"} :
          /\ Len(LoggedOf(ty)) >= 2
          /\ ~verify_one(ty, committed, LoggedOf(ty)[1])
          /\ verify_one(ty, committed, LoggedOf(ty)[2])

\* C15: the verifier leaves the logs and the rows as it found them, and two
\* of its runs that found the same logs and the same rows gave the same
\* summary: the same success count, failure count and list of mismatches.
C15_VerificationIdempotent ==
    /\ vpc # "idle" => v_seen = [logs |-> logs, db |-> committed]
    /\ \A p, q \in 1..Len(v_reports) :
          v_reports[p].seen = v_reports[q].seen => v_reports[p] = v_reports[q]

\* the verifier has run twice on the same logs and rows and reported a
\* failed check each time
C15_Witness ==
    /\ Len(v_reports) = 2
    /\ v_reports[1].seen = v_reports[2].seen
    /\ v_reports[1].fail >= 1
    /\ Len(v_reports[1].mismatches) >= 1
    /\ Len(v_reports[2].mismatches) >= 1

\* datetime a is earlier than datetime b
Earlier(a, b) ==
    \/ a.day < b.day
    \/ a.day = b.day /\ a.sec < b.sec
    \/ a.day = b.day /\ a.sec = b.sec /\ a.us < b.us

\* the window get_d1_date_range returns on the clock as it stands
WindowNow == get_d1_date_range(date_today(now))

\* the window of the inserts has been resolved in this run
InsertsWindowResolved == ins_window.start # NoDate

\* C16 (as the code has it): on every clock the window starts at 00:00:00 of
\* the day before and ends at 23:59:59.999999 of that day, so end - start is
\* one day less one microsecond, 86399 whole seconds, and the start is earlier
\* than the midnight that began today; a window the inserts resolved is such a
\* window.
C16_WindowIsDayBefore ==
    LET today == date_today(now)
        lastMicrosecond == [sec |-> SECONDS_PER_DAY - 1,
                            us |-> MICROSECONDS_PER_SECOND - 1]
    IN  /\ WindowNow.start = [day |-> today - 1, sec |-> 0, us |-> 0]
        /\ WindowNow.end = [day |-> today - 1, sec |-> SECONDS_PER_DAY - 1,
                                us |-> MICROSECONDS_PER_SECOND - 1]
        /\ timedelta_between(WindowNow.end, WindowNow.start) = lastMicrosecond
        /\ int_total_seconds(timedelta_between(WindowNow.end, WindowNow.start))
             = SECONDS_PER_DAY - 1
        /\ Earlier(WindowNow.start, [day |-> today, sec |-> 0, us |-> 0])
        /\ InsertsWindowResolved
           => /\ timedelta_between(ins_window.end, ins_window.start) = lastMicrosecond
              /\ ins_window.end.day = ins_window.start.day
              /\ ins_window.start.day < today

\* the inserts resolved their window after midnight had passed
C16_Witness ==
    /\ InsertsWindowResolved
    /\ ins_window.start.day = date_today(now) - 1
    /\ date_today(now) >= 2
    /\ clock_moves >= 1

\* C16 as stated: the window ends at 23:59:59 and end - start is exactly
\* 86399 seconds.
C16_EndAtLastSecond ==
    LET today == date_today(now)
    IN  /\ WindowNow.start = [day |-> today - 1, sec |-> 0, us |-> 0]
        /\ WindowNow.end = [day |-> today - 1, sec |-> SECONDS_PER_DAY - 1, us |-> 0]
        /\ timedelta_between(WindowNow.end, WindowNow.start)
             = [sec |-> SECONDS_PER_DAY - 1, us |-> 0]
        /\ Earlier(WindowNow.start, [day |-> today, sec |-> 0, us |-> 0])

\* this run has written its log file
RunWroteLog == \E k \in 1..Len(written) : written[k].run = runs

\* C17: in a run that committed and wrote its log, the date of every delete
\* and update call and the timestamp of every insert call lie in the calendar
\* day of the d1_date of the log summary.
C17_OneWindowPerRun ==
    (pc = "done" /\ exit_status = EXIT_OK /\ RunWroteLog /\ RunLog \in DOMAIN logs)
    => \A k \in 1..Len(calls) :
          calls[k].arg_date = date_of(logs[RunLog].doc.d1_date)

\* C18: a run the user interrupted before any commit leaves the committed
\* rows as they were when it started, no open change and no log file.
C18_InterruptBeforeCommitRollsBack ==
    (pc = "done" /\ exit_status = EXIT_INTERRUPT /\ commits = 0 /\ drift = 0)
    => /\ committed = committed_before
       /\ txn = committed
       /\ logs = logs_before
       /\ log_writes = 0

\* the interrupt came after a stored function had inserted an invoice
C18_Witness ==
    /\ pc = "done"
    /\ exit_status = EXIT_INTERRUPT
    /\ commits = 0
    /\ \E k \in 1..Len(calls) :
          /\ calls[k].fn = "insert"
          /\ calls[k].ret # NULL
          /\ calls[k].ret \notin DOMAIN committed

\* C19: a run ends with status 130 exactly when the user interrupted it; a run
\* ended by a validation failure, a connection error, a stored-function error
\* or any other failure that reaches a handler ends with status 1; the three
\* statuses differ.
C19_InterruptStatusDistinct ==
    /\ EXIT_INTERRUPT \notin {EXIT_OK, EXIT_FAILURE}
    /\ EXIT_FAILURE # EXIT_OK
    /\ pc = "done"
       => /\ exit_status = EXIT_INTERRUPT <=> fault = "interrupt"
          /\ validation_error.raised => exit_status = EXIT_FAILURE
          /\ fault \in {"connect_error", "db_error", "commit_error", "makedirs_error"}
             => exit_status = EXIT_FAILURE

\* a validated run was interrupted in the middle of its batch
C19_Witness ==
    /\ pc = "done"
    /\ validated
    /\ fault = "interrupt"
    /\ exit_status = EXIT_INTERRUPT
    /\ Len(calls) >= 1
    /\ Len(calls) < Requested_total

\* C20: two distinct runs never write to the same log file name.
C20_OneFilePerRun ==
    \A p, q \in 1..Len(written) :
        written[p].run # written[q].run => written[p].name # written[q].name

\* the run committed and wrote its log in full, and nothing failed in it
RunCommittedAndLogged ==
    /\ pc = "done"
    /\ commits = 1
    /\ fault = "none"
    /\ RunWroteLog
    /\ RunLog \in DOMAIN logs

\* C21: the counts in the summary of the log of a committed run are the counts
\* requested for the run (stated for the runs in which every insert call
\* returned a row).
C21_SummaryCountsAreRequested ==
    (/\ RunCommittedAndLogged
     /\ \A k \in 1..Len(calls) : calls[k].fn = "insert" => calls[k].ret # NULL)
    => /\ logs[RunLog].doc.counts.inserts = num_inserts
       /\ logs[RunLog].doc.counts.updates = num_updates
       /\ logs[RunLog].doc.counts.deletes = num_deletes

\* C23: the verifier, run on the log of a run that committed and wrote its
\* log, with no change to the rows since, reaches its summary with no failed
\* check and with one passed check for each record of the log.
C23_CommittedRunVerifies ==
    (RunCommittedAndLogged /\ drift = 0 /\ vpc = "summary")
    => /\ v_log = logs[RunLog].doc
       /\ fail_count = 0
       /\ v_mismatches = <<>>
       /\ success_count = Len(all_operations)

\* the verified run deleted a row, updated a row and inserted a row
C23_Witness ==
    /\ RunCommittedAndLogged
    /\ drift = 0
    /\ vpc = "summary"
    /\ fail_count = 0
    /\ CountType(v_log.operations, "delete") >= 1
    /\ CountType(v_log.operations, "update") >= 1
    /\ CountType(v_log.operations, "insert") >= 1

\* the log the verifier finds to be the latest
LatestLog == find_latest_log_file(logs)

\* the run that wrote the file `name' last
LastWriter(name) ==
    LET ks == {k \in 1..Len(written) : written[k].name = name}
    IN  written[CHOOSE k \in ks : \A m \in ks : m <= k].run

\* C22: after runs of which at least one committed and the last was not
\* interrupted, the log the verifier loads is the file of greatest
\* modification time, and it is the log of the run that committed last.
C22_VerifierChecksLastCommittedRun ==
    (/\ vpc # "idle"
     /\ LatestLog # NULL
     /\ last_commit_run > 0
     /\ fault # "interrupt")
    => /\ v_log = logs[LatestLog].doc
       /\ \A n \in DOMAIN logs : not_later(logs[n].mtime, logs[LatestLog].mtime)
       /\ LastWriter(LatestLog) = last_commit_run

====
